---- MODULE Spec2Model ----
(***************************************************************************)
(* Model of SudokuSolver/Source.cpp: the candidate evaluator               *)
(* (getMoveValues), the global cell selector (getBestBoardSpace), the      *)
(* recursive backtracking solver (solveBoard), the puzzle loader           *)
(* (loadPuzzle) and the command line entry point (main).                   *)
(*                                                                         *)
(* The recursion of solveBoard is unfolded into an explicit call stack:    *)
(* one frame per active invocation, holding its local BoardSpace `move`    *)
(* and its position in the function body.                                  *)
(***************************************************************************)
EXTENDS Integers, Sequences, FiniteSets, TLC

VARIABLES
    board,      \* the uint8_t[9][9] array: main's `puzzle`, solveBoard's `board`
    stack,      \* active invocations of solveBoard, innermost last
    ret,        \* value returned by the invocation that returned last
    retEntry,   \* history: the board at the entry of that invocation
    entry0,     \* history: the board at the entry of the current top-level call
    calls,      \* history: number of top-level calls of solveBoard so far
    prev,       \* history: value returned by the previous top-level call
    writes,     \* history: board writes made during the current top-level call
    nested,     \* history: recursive calls made during the current top-level call
    pc,         \* position of the caller (main, or a caller of the core API)
    argc,       \* main's argc
    fs,         \* content of the file main opens, or NotFound
    status,     \* process exit status once main has returned
    load,       \* history: outcome of main's call of loadPuzzle
    out,        \* what main has printed: each board's heading and text
    ev          \* last result of a direct call of the evaluator / selector

vars == <<board, stack, ret, retEntry, entry0, calls, prev, writes, nested,
          pc, argc, fs, status, load, out, ev>>

solverVars == <<board, stack, ret, retEntry, entry0, calls, prev, writes, nested>>
mainVars == <<argc, fs, status, load, out>>

----------------------------------------------------------------------------
(* Program constants *)

BoardSize == 9
SectionSize == 3
SentinelSize == 10

Idx == 0 .. (BoardSize - 1)

Range(s) == {s[i] : i \in 1 .. Len(s)}

----------------------------------------------------------------------------
(* Candidate evaluator *)

\* Variant: the loop stops one column early (col < 8).
checkRowForValueShort(value, row, b) ==
    \E col \in 0 .. (BoardSize - 2) : b[row][col] = value

checkRowForValue(value, row, b) ==
    \E col \in Idx : b[row][col] = value

\* Variant: the loop stops one row early (row < 8).
checkColumnForValueShort(value, col, b) ==
    \E row \in 0 .. (BoardSize - 2) : b[row][col] = value

checkColumnForValue(value, col, b) ==
    \E row \in Idx : b[row][col] = value

\* Variant: the section's first column is derived from the row.
checkSectionForValueRowCol(value, row, col, b) ==
    LET search_row == row - (row % SectionSize)
        search_col == row - (row % SectionSize)
    IN  \E i \in search_row .. (search_row + SectionSize - 1) :
            \E j \in search_col .. (search_col + SectionSize - 1) :
                value = b[i][j]

checkSectionForValue(value, row, col, b) ==
    LET search_row == row - (row % SectionSize)
        search_col == col - (col % SectionSize)
    IN  \E i \in search_row .. (search_row + SectionSize - 1) :
            \E j \in search_col .. (search_col + SectionSize - 1) :
                value = b[i][j]

\* Variant: the section is not consulted.
MoveValueOkNoSection(value, x, y, b) ==
    /\ ~checkRowForValue(value, x, b)
    /\ ~checkColumnForValue(value, y, b)

\* A value is pushed when it is found in neither the row, the column nor
\* the section of (x, y).
MoveValueOk(value, x, y, b) ==
    /\ ~checkRowForValue(value, x, b)
    /\ ~checkColumnForValue(value, y, b)
    /\ ~checkSectionForValue(value, x, y, b)

getMoveValues(x, y, b) ==
    [x |-> x, y |-> y,
     possible_values |->
        SelectSeq([v \in 1 .. BoardSize |-> v],
                  LAMBDA value : MoveValueOk(value, x, y, b))]

----------------------------------------------------------------------------
(* Global cell selector *)

\* Variant: a space without candidates is skipped like a filled one.
SpaceVerdictNoDead(move, best_move) ==
    IF Len(move.possible_values) = 0 THEN "keep"
    ELSE IF Len(move.possible_values) = 1 THEN "single"
    ELSE IF Len(move.possible_values) < Len(best_move.possible_values)
         THEN "better"
         ELSE "keep"

\* Variant: a space with as many candidates as the best replaces it (<=).
SpaceVerdictLastTie(move, best_move) ==
    IF Len(move.possible_values) = 0 THEN "dead"
    ELSE IF Len(move.possible_values) = 1 THEN "single"
    ELSE IF Len(move.possible_values) <= Len(best_move.possible_values)
         THEN "better"
         ELSE "keep"

\* The outcome of the size tests made on the candidates of one empty space:
\* "dead" (no candidate), "single" (exactly one: stop scanning),
\* "better" (fewer than the best so far) or "keep".
SpaceVerdict(move, best_move) ==
    IF Len(move.possible_values) = 0 THEN "dead"
    ELSE IF Len(move.possible_values) = 1 THEN "single"
    ELSE IF Len(move.possible_values) < Len(best_move.possible_values)
         THEN "better"
         ELSE "keep"

\* Variant: the test for an available space is inverted (board[x][y] != 0).
VisitSpaceInverted(x, y, best_move, b) ==
    IF b[x][y] # 0
    THEN LET move == getMoveValues(x, y, b)
             verdict == SpaceVerdict(move, best_move)
         IN  CASE verdict = "single" ->
                    [returned |-> TRUE, best_move |-> move]
               [] verdict = "dead" ->
                    [returned |-> TRUE,
                     best_move |-> [best_move EXCEPT !.possible_values = <<>>]]
               [] verdict = "better" ->
                    [returned |-> FALSE, best_move |-> move]
               [] OTHER ->
                    [returned |-> FALSE, best_move |-> best_move]
    ELSE [returned |-> FALSE, best_move |-> best_move]

\* Variant: a space with a single candidate does not stop the scan.
VisitSpaceNoEarlyExit(x, y, best_move, b) ==
    IF b[x][y] = 0
    THEN LET move == getMoveValues(x, y, b)
         IN  IF Len(move.possible_values) = 0
             THEN [returned |-> TRUE,
                   best_move |-> [best_move EXCEPT !.possible_values = <<>>]]
             ELSE IF Len(move.possible_values) < Len(best_move.possible_values)
             THEN [returned |-> FALSE, best_move |-> move]
             ELSE [returned |-> FALSE, best_move |-> best_move]
    ELSE [returned |-> FALSE, best_move |-> best_move]

\* The body of the inner loop for space (x, y): `returned` tells that the
\* function has returned from inside the loops, with value FALSE.
VisitSpace(x, y, best_move, b) ==
    IF b[x][y] = 0
    THEN LET move == getMoveValues(x, y, b)
             verdict == SpaceVerdict(move, best_move)
         IN  CASE verdict = "single" ->
                    [returned |-> TRUE, best_move |-> move]
               [] verdict = "dead" ->
                    [returned |-> TRUE,
                     best_move |-> [best_move EXCEPT !.possible_values = <<>>]]
               [] verdict = "better" ->
                    [returned |-> FALSE, best_move |-> move]
               [] OTHER ->
                    [returned |-> FALSE, best_move |-> best_move]
    ELSE [returned |-> FALSE, best_move |-> best_move]

\* The inner loop `for y` of row x, from column y on.
RECURSIVE ScanRow(_, _, _, _)
ScanRow(x, y, best_move, b) ==
    IF y = BoardSize
    THEN [returned |-> FALSE, best_move |-> best_move]
    ELSE LET s == VisitSpace(x, y, best_move, b)
         IN  IF s.returned THEN s ELSE ScanRow(x, y + 1, s.best_move, b)

\* The outer loop `for x`, from row x on, and the test that follows it.
RECURSIVE ScanFrom(_, _, _)
ScanFrom(x, best_move, b) ==
    IF x = BoardSize
    THEN [ret |-> (SentinelSize = Len(best_move.possible_values)),
          best_move |-> best_move]
    ELSE LET s == ScanRow(x, 0, best_move, b)
         IN  IF s.returned
             THEN [ret |-> FALSE, best_move |-> s.best_move]
             ELSE ScanFrom(x + 1, s.best_move, b)

\* best_move is the BoardSpace of the caller; its queue receives 0..9 first.
getBestBoardSpace(best_move, b) ==
    ScanFrom(0,
             [best_move EXCEPT !.possible_values =
                 @ \o [i \in 1 .. SentinelSize |-> i - 1]],
             b)

----------------------------------------------------------------------------
(* Backtracking solver *)

\* `BoardSpace move;` leaves x and y indeterminate: any byte may be there.
Indeterminate == {0, 255}

BoardSpaceDefault(ux, uy) == [x |-> ux, y |-> uy, possible_values |-> <<>>]

Top == stack[Len(stack)]

WriteCell(b, x, y, value) == [b EXCEPT ![x][y] = value]

\* A frame of an invocation that has just been entered.  `entry` (the board
\* at its entry) and, later, `cands` (the queue as the selector returned it)
\* are history fields; `move` is its local BoardSpace.
NewFrame(b) == [pc |-> "entry", entry |-> b]

\* `return v;` of the innermost invocation.
Return(v) ==
    /\ stack' = SubSeq(stack, 1, Len(stack) - 1)
    /\ ret' = v
    /\ retEntry' = Top.entry

\* Lines 151-162: select the space; return on a solved or unsolvable board.
SolveEnter ==
    /\ stack # <<>>
    /\ Top.pc = "entry"
    /\ \E ux \in Indeterminate, uy \in Indeterminate :
        LET r == getBestBoardSpace(BoardSpaceDefault(ux, uy), board)
        IN  IF r.ret
            THEN Return("true")
            ELSE IF r.best_move.possible_values = <<>>
            THEN Return("false")
            ELSE /\ stack' = [stack EXCEPT ![Len(stack)] =
                        [pc |-> "loop", entry |-> Top.entry,
                         cands |-> r.best_move.possible_values,
                         move |-> r.best_move]]
                 /\ UNCHANGED <<ret, retEntry>>
    /\ UNCHANGED <<board, entry0, calls, prev, writes, nested>>

\* Variant: the move made is the back of the queue, the one popped its front.
SolvePlaceBack ==
    /\ stack # <<>>
    /\ Top.pc = "loop"
    /\ Top.move.possible_values # <<>>
    /\ LET move == Top.move
           b2 == WriteCell(board, move.x, move.y,
                           move.possible_values[Len(move.possible_values)])
       IN  /\ board' = b2
           /\ stack' = [stack EXCEPT ![Len(stack)] =
                            [pc |-> "call", entry |-> Top.entry,
                             cands |-> Top.cands,
                             move |-> [move EXCEPT !.possible_values = Tail(@)]]]
                       \o <<NewFrame(b2)>>
    /\ writes' = writes + 1
    /\ nested' = nested + 1
    /\ UNCHANGED <<ret, retEntry, entry0, calls, prev>>

\* Lines 164-169: make the move at the front of the queue, pop it, recurse.
SolvePlace ==
    /\ stack # <<>>
    /\ Top.pc = "loop"
    /\ Top.move.possible_values # <<>>
    /\ LET move == Top.move
           b2 == WriteCell(board, move.x, move.y, Head(move.possible_values))
       IN  /\ board' = b2
           /\ stack' = [stack EXCEPT ![Len(stack)] =
                            [pc |-> "call", entry |-> Top.entry,
                             cands |-> Top.cands,
                             move |-> [move EXCEPT !.possible_values = Tail(@)]]]
                       \o <<NewFrame(b2)>>
    /\ writes' = writes + 1
    /\ nested' = nested + 1
    /\ UNCHANGED <<ret, retEntry, entry0, calls, prev>>

\* Variant: a failed recursive call ends the invocation (no further move).
SolveResumeGiveUp ==
    /\ stack # <<>>
    /\ Top.pc = "call"
    /\ ret # "none"
    /\ IF ret = "true"
       THEN Return("true")
       ELSE /\ stack' = [stack EXCEPT ![Len(stack)] =
                   [pc |-> "loop", entry |-> Top.entry, cands |-> Top.cands,
                    move |-> [Top.move EXCEPT !.possible_values = <<>>]]]
            /\ ret' = "none"
            /\ UNCHANGED retEntry
    /\ UNCHANGED <<board, entry0, calls, prev, writes, nested>>

\* Variant: the move is undone after the recursive call, whatever it returned.
SolveResumeUndo ==
    /\ stack # <<>>
    /\ Top.pc = "call"
    /\ ret # "none"
    /\ IF ret = "true"
       THEN /\ board' = WriteCell(board, Top.move.x, Top.move.y, 0)
            /\ Return("true")
       ELSE /\ stack' = [stack EXCEPT ![Len(stack)].pc = "loop"]
            /\ ret' = "none"
            /\ UNCHANGED <<board, retEntry>>
    /\ UNCHANGED <<entry0, calls, prev, writes, nested>>

\* Lines 169-170: the recursive call has returned.
SolveResume ==
    /\ stack # <<>>
    /\ Top.pc = "call"
    /\ ret # "none"
    /\ IF ret = "true"
       THEN Return("true")
       ELSE /\ stack' = [stack EXCEPT ![Len(stack)].pc = "loop"]
            /\ ret' = "none"
            /\ UNCHANGED retEntry
    /\ UNCHANGED <<board, entry0, calls, prev, writes, nested>>

\* Variant: the space is not cleared before returning false.
SolveClearKeep ==
    /\ stack # <<>>
    /\ Top.pc = "loop"
    /\ Top.move.possible_values = <<>>
    /\ Return("false")
    /\ UNCHANGED <<board, entry0, calls, prev, writes, nested>>

\* Variant: the space cleared has its coordinates swapped (board[y][x]).
SolveClearSwapped ==
    /\ stack # <<>>
    /\ Top.pc = "loop"
    /\ Top.move.possible_values = <<>>
    /\ board' = WriteCell(board, Top.move.y, Top.move.x, 0)
    /\ Return("false")
    /\ writes' = writes + 1
    /\ UNCHANGED <<entry0, calls, prev, nested>>

\* Lines 173-175: every move failed; clear the space and return false.
SolveClear ==
    /\ stack # <<>>
    /\ Top.pc = "loop"
    /\ Top.move.possible_values = <<>>
    /\ board' = WriteCell(board, Top.move.x, Top.move.y, 0)
    /\ Return("false")
    /\ writes' = writes + 1
    /\ UNCHANGED <<entry0, calls, prev, nested>>

Solve ==
    /\ (SolveEnter \/ SolvePlace \/ SolveResume \/ SolveClear)
    /\ UNCHANGED <<pc, argc, fs, status, load, out, ev>>

\* A top-level call solveBoard(board) by the current caller.
BeginSolve ==
    /\ stack' = <<NewFrame(board)>>
    /\ ret' = "none"
    /\ entry0' = board
    /\ calls' = calls + 1
    /\ prev' = ret
    /\ writes' = 0
    /\ nested' = 0
    /\ UNCHANGED <<board, retEntry>>

----------------------------------------------------------------------------
(* Boards given to the solver *)

\* A complete valid grid; the boards of the model are this grid with
\* spaces emptied and values overwritten.
SolvedRows ==
    << <<5,3,4,6,7,8,9,1,2>>,
       <<6,7,2,1,9,5,3,4,8>>,
       <<1,9,8,3,4,2,5,6,7>>,
       <<8,5,9,7,6,1,4,2,3>>,
       <<4,2,6,8,5,3,7,9,1>>,
       <<7,1,3,9,2,4,8,5,6>>,
       <<9,6,1,5,3,7,2,8,4>>,
       <<2,8,7,4,1,9,6,3,5>>,
       <<3,4,5,2,8,6,1,7,9>> >>

SolvedGrid == [x \in Idx |-> [y \in Idx |-> SolvedRows[x + 1][y + 1]]]

\* Spaces that may be emptied, in the order the bound admits them.
HoleOrder ==
    << <<4,7>>, <<8,8>>, <<2,4>>, <<2,5>>, <<5,4>>, <<5,5>>, <<0,5>>,
       <<2,2>>, <<3,5>>, <<0,0>> >>

\* Overwrites <<x, y, value>> that may be applied, one at most.
TamperOrder ==
    << <<8,7,9>>, <<0,2,8>>, <<0,1,5>> >>

MaxHoles == 8
MaxTampers == 2
MaxBlankRows == 8
MaxCalls == 2

HoleCells == {HoleOrder[i] : i \in 1 .. (IF MaxHoles < Len(HoleOrder) THEN MaxHoles ELSE Len(HoleOrder))}
Tampers == {TamperOrder[i] : i \in 1 .. (IF MaxTampers < Len(TamperOrder) THEN MaxTampers ELSE Len(TamperOrder))}

Punch(b, holes) ==
    [x \in Idx |-> [y \in Idx |-> IF <<x, y>> \in holes THEN 0 ELSE b[x][y]]]

BlankRows(b, n) ==
    [x \in Idx |-> [y \in Idx |-> IF x >= BoardSize - n THEN 0 ELSE b[x][y]]]

PunchedBoards ==
    {Punch(SolvedGrid, holes) : holes \in SUBSET HoleCells}

TamperedBoards ==
    {WriteCell(b, t[1], t[2], t[3]) : b \in PunchedBoards, t \in Tampers}

BlankRowBoards ==
    {BlankRows(SolvedGrid, n) : n \in 0 .. MaxBlankRows}

Boards == PunchedBoards \cup TamperedBoards \cup BlankRowBoards

----------------------------------------------------------------------------
(* The solver called through the core API *)

NoEval == [op |-> "none"]

\* No file of the name main opens.
NoFile == [exists |-> FALSE, data |-> <<>>]

Init ==
    /\ board \in Boards
    /\ stack = <<>>
    /\ ret = "none"
    /\ retEntry = board
    /\ entry0 = board
    /\ calls = 0
    /\ prev = "none"
    /\ writes = 0
    /\ nested = 0
    /\ pc = "api"
    /\ argc = 1
    /\ fs = NoFile
    /\ status = 0
    /\ load = "notcalled"
    /\ out = <<>>
    /\ ev = NoEval

\* solveBoard(board) called by a client of the core, the first time or again.
CallSolve ==
    /\ pc = "api"
    /\ stack = <<>>
    /\ calls < MaxCalls
    /\ BeginSolve
    /\ UNCHANGED <<pc, argc, fs, status, load, out, ev>>

Next == CallSolve \/ Solve

Spec == Init /\ [][Next]_vars

----------------------------------------------------------------------------
(* Vocabulary of the properties, stated on the grid itself *)

Cells == Idx \X Idx

RowCells(x) == {<<x, j>> : j \in Idx}
ColCells(y) == {<<i, y>> : i \in Idx}
BoxCells(x, y) ==
    {c \in Cells : (c[1] \div 3 = x \div 3) /\ (c[2] \div 3 = y \div 3)}

Units ==
    {RowCells(x) : x \in Idx} \cup {ColCells(y) : y \in Idx}
        \cup {BoxCells(3 * i, 3 * j) : i \in 0 .. 2, j \in 0 .. 2}

EmptyCells(b) == {c \in Cells : b[c[1]][c[2]] = 0}

\* No two equal non-zero values in any row, column or box.
Valid(b) ==
    \A u \in Units : \A c \in u, d \in u :
        (c # d /\ b[c[1]][c[2]] # 0) => b[c[1]][c[2]] # b[d[1]][d[2]]

\* Every row, column and box holds each of 1..9 (hence exactly once).
Complete(b) ==
    \A u \in Units : \A v \in 1 .. 9 : \E c \in u : b[c[1]][c[2]] = v

\* The values present in the row, the column and the box of (x, y).
PeerValues(b, x, y) ==
    {b[c[1]][c[2]] : c \in RowCells(x) \cup ColCells(y) \cup BoxCells(x, y)}

Candidates(b, x, y) == (1 .. 9) \ PeerValues(b, x, y)

\* Some empty cell has no legal candidate.
HasDeadCell(b) ==
    \E c \in EmptyCells(b) : Candidates(b, c[1], c[2]) = {}

\* s agrees with b on every filled cell of b.
Extends(s, b) ==
    \A c \in Cells : b[c[1]][c[2]] # 0 => s[c[1]][c[2]] = b[c[1]][c[2]]

\* The first empty cell in row-major order.
FirstEmpty(b) ==
    CHOOSE c \in EmptyCells(b) :
        \A d \in EmptyCells(b) :
            (c[1] < d[1]) \/ (c[1] = d[1] /\ c[2] <= d[2])

\* All valid completions of b, by exhaustive enumeration cell by cell.
RECURSIVE Completions(_)
Completions(b) ==
    IF EmptyCells(b) = {}
    THEN IF Valid(b) THEN {b} ELSE {}
    ELSE LET c == FirstEmpty(b)
         IN  UNION {Completions(WriteCell(b, c[1], c[2], v)) :
                        v \in Candidates(b, c[1], c[2])}

\* Boards small enough for the enumeration.
EnumLimit == 2 * BoardSize
Enumerable(b) == Cardinality(EmptyCells(b)) <= EnumLimit

\* A top-level call has returned.
Done == stack = <<>> /\ ret # "none"

\* Number of moves the frame has made so far.
Tried(f) == Len(f.cands) - Len(f.move.possible_values)

----------------------------------------------------------------------------
(* Properties of solveBoard *)

\* C1: whenever an invocation of solveBoard, top-level or recursive, returns
\* false, every cell holds the value it held when that invocation was entered.
C1_FalseRestoresBoard ==
    ret = "false" => board = retEntry

\* A recursive invocation that made moves and cleared its space has just
\* returned false to its caller.
C1_Witness ==
    /\ ret = "false"
    /\ stack # <<>>
    /\ \E c \in Cells : retEntry[c[1]][c[2]] = 0
    /\ ~HasDeadCell(retEntry)
    /\ board = retEntry

\* C2: when an invocation entered on a board without duplicates returns
\* true, the board has no empty cell and every row, column and box holds
\* each of 1..9 exactly once.
C2_TrueMeansSolved ==
    (ret = "true" /\ Valid(retEntry)) =>
        (EmptyCells(board) = {} /\ Valid(board) /\ Complete(board))

\* A top-level call that needed backtracking returned true.
C2_Witness ==
    /\ Done
    /\ ret = "true"
    /\ Valid(entry0)
    /\ writes > nested
    /\ Complete(board)

\* C3: on an entry-valid board the top-level call returns true when a valid
\* completion exists and false only when none exists; when the completion is
\* unique the final board is that completion.
C3_Complete ==
    (Done /\ Valid(entry0)) =>
        /\ Extends(SolvedGrid, entry0) => ret = "true"
        /\ Enumerable(entry0) =>
              /\ (ret = "true") <=> (Completions(entry0) # {})
              /\ (Cardinality(Completions(entry0)) = 1) =>
                     board \in Completions(entry0)

\* A board with a completion was solved only after a failed move was undone.
C3_Witness ==
    /\ Done
    /\ Valid(entry0)
    /\ ret = "true"
    /\ writes > nested
    /\ Extends(SolvedGrid, entry0)

\* C4: when some empty cell of the entry board has no candidate, wherever it
\* lies, the invocation returns false and the board equals the entry board.
C4_DeadCellFails ==
    (ret # "none" /\ HasDeadCell(retEntry)) =>
        (ret = "false" /\ board = retEntry)

\* The top-level call made moves before it met the cell without candidates.
C4_Witness ==
    /\ Done
    /\ HasDeadCell(entry0)
    /\ Valid(entry0)
    /\ writes > 0
    /\ ret = "false"

\* C5: on a complete valid grid, and on the board left by a successful call,
\* the top-level call returns true without a write and without a recursive
\* call.
C5_SolvedIdempotent ==
    (Done /\ ((EmptyCells(entry0) = {} /\ Valid(entry0)) \/ prev = "true")) =>
        (ret = "true" /\ board = entry0 /\ writes = 0 /\ nested = 0)

\* A second call has returned on the board that a first call had to solve.
C5_Witness ==
    /\ Done
    /\ calls = 2
    /\ prev = "true"
    /\ ret = "true"
    /\ board # SolvedGrid
    /\ Complete(board)

\* C9: starting from a board without duplicates, every board reached during
\* the call is without duplicates.
C9_ValidThroughout ==
    Valid(entry0) => Valid(board)

\* An invocation has made its second or a later move, after the recursive
\* call for an earlier one failed.
C9_Witness ==
    /\ Valid(entry0)
    /\ stack # <<>>
    /\ Top.pc = "entry"
    /\ Len(stack) >= 2
    /\ Tried(stack[Len(stack) - 1]) >= 2

----------------------------------------------------------------------------
(* The evaluator and the selector called directly *)

InitEval ==
    /\ board \in Boards
    /\ stack = <<>>
    /\ ret = "none"
    /\ retEntry = board
    /\ entry0 = board
    /\ calls = 0
    /\ prev = "none"
    /\ writes = 0
    /\ nested = 0
    /\ pc = "eval"
    /\ argc = 1
    /\ fs = NoFile
    /\ status = 0
    /\ load = "notcalled"
    /\ out = <<>>
    /\ ev = NoEval

\* getMoveValues(x, y, board) for an empty space (x, y).
EvalMoveValues ==
    /\ pc = "eval"
    /\ \E x \in Idx, y \in Idx :
        /\ board[x][y] = 0
        /\ ev' = [op |-> "getMoveValues", x |-> x, y |-> y, before |-> board,
                  move |-> getMoveValues(x, y, board)]
    /\ UNCHANGED <<solverVars, pc, mainVars>>

\* getBestBoardSpace(best_move, board) with a default-constructed best_move.
EvalBestBoardSpace ==
    /\ pc = "eval"
    /\ \E ux \in Indeterminate, uy \in Indeterminate :
        LET r == getBestBoardSpace(BoardSpaceDefault(ux, uy), board)
        IN  ev' = [op |-> "getBestBoardSpace", before |-> board,
                   ret |-> r.ret, best_move |-> r.best_move]
    /\ UNCHANGED <<solverVars, pc, mainVars>>

NextEval == EvalMoveValues \/ EvalBestBoardSpace

SpecEval == InitEval /\ [][NextEval]_vars

\* (i, j) comes before (x, y) in the scan of the selector.
Before(c, d) == (c[1] < d[1]) \/ (c[1] = d[1] /\ c[2] < d[2])

\* Some empty cell without candidates is met by the scan before any empty
\* cell with exactly one candidate.
DeadCellFirst(b) ==
    \E c \in EmptyCells(b) :
        /\ Candidates(b, c[1], c[2]) = {}
        /\ \A d \in EmptyCells(b) :
              Before(d, c) => Cardinality(Candidates(b, d[1], d[2])) # 1

\* C6: for an empty cell, getMoveValues returns a strictly ascending sequence
\* whose set is 1..9 minus the values of the cell's row, column and box,
\* empty exactly when all nine values are present; the board is unchanged.
C6_MoveValuesExact ==
    (ev.op = "getMoveValues") =>
        LET pv == ev.move.possible_values
        IN  /\ \A i \in 1 .. (Len(pv) - 1) : pv[i] < pv[i + 1]
            /\ Range(pv) = Candidates(ev.before, ev.x, ev.y)
            /\ (pv = <<>>) <=> ((1 .. 9) \subseteq PeerValues(ev.before, ev.x, ev.y))
            /\ ev.move.x = ev.x /\ ev.move.y = ev.y
            /\ board = ev.before

\* A cell with several candidates, some value being excluded by the box only.
C6_Witness ==
    /\ ev.op = "getMoveValues"
    /\ Len(ev.move.possible_values) >= 2
    /\ \E v \in 1 .. 9 :
        /\ v \in {board[c[1]][c[2]] : c \in BoxCells(ev.x, ev.y)}
        /\ v \notin {board[c[1]][c[2]] : c \in RowCells(ev.x) \cup ColCells(ev.y)}

\* C10 as stated: Solved exactly when no empty cell remains, Dead end exactly
\* when some empty cell has no candidate, Branch point otherwise.
C10_ThreeOutcomes ==
    (ev.op = "getBestBoardSpace") =>
        LET pv == ev.best_move.possible_values
        IN  /\ ev.ret <=> (EmptyCells(ev.before) = {})
            /\ (~ev.ret /\ pv = <<>>) <=> HasDeadCell(ev.before)
            /\ (~ev.ret /\ pv # <<>>) <=>
                   (EmptyCells(ev.before) # {} /\ ~HasDeadCell(ev.before))

\* C10 amended: Dead end exactly when the scan meets an empty cell without
\* candidates before any empty cell with exactly one candidate; Solved exactly
\* when no empty cell remains; Branch point otherwise.
C10_ThreeOutcomesScanOrder ==
    (ev.op = "getBestBoardSpace") =>
        LET pv == ev.best_move.possible_values
        IN  /\ ev.ret <=> (EmptyCells(ev.before) = {})
            /\ (~ev.ret /\ pv = <<>>) <=> DeadCellFirst(ev.before)
            /\ (~ev.ret /\ pv # <<>>) <=>
                   (EmptyCells(ev.before) # {} /\ ~DeadCellFirst(ev.before))

\* A branch point is returned although a later empty cell has no candidate.
C10_Witness ==
    /\ ev.op = "getBestBoardSpace"
    /\ HasDeadCell(ev.before)
    /\ ~ev.ret
    /\ Len(ev.best_move.possible_values) = 1

----------------------------------------------------------------------------
(* Puzzle loader *)

\* Characters are their ASCII codes.
Newline == 10
Zero == 48
Letter == 120

isdigit(c) == c \in Zero .. (Zero + 9)

\* Number of characters from position pos (1-based) up to the next newline
\* or the end of the data.
RECURSIVE LineLength(_, _)
LineLength(data, pos) ==
    IF pos > Len(data) \/ data[pos] = Newline
    THEN 0
    ELSE 1 + LineLength(data, pos + 1)

\* A stream just opened on the file: next position, eofbit, failbit.
OpenStream == [pos |-> 1, eof |-> FALSE, fail |-> FALSE]

\* std::getline(in, row_str).  When the stream is not good the sentry fails:
\* failbit is set and row_str keeps its content.  Otherwise row_str is erased
\* and receives the characters up to the newline, which is consumed; reaching
\* the end of the data sets eofbit, and failbit too when nothing was read.
getline(data, in, row_str) ==
    IF in.eof \/ in.fail
    THEN [in |-> [in EXCEPT !.fail = TRUE], row_str |-> row_str]
    ELSE LET n == LineLength(data, in.pos)
             hitEnd == in.pos + n > Len(data)
         IN  [in |-> [pos |-> IF hitEnd THEN in.pos + n ELSE in.pos + n + 1,
                      eof |-> hitEnd,
                      fail |-> (hitEnd /\ n = 0)],
              row_str |-> SubSeq(data, in.pos, in.pos + n - 1)]

\* The inner loop `for y` of row x, from column y on: digits are stored one
\* by one, the first other character makes loadPuzzle return false.
RECURSIVE StoreRow(_, _, _, _)
StoreRow(x, y, row_str, puzzle) ==
    IF y = BoardSize
    THEN [ok |-> TRUE, puzzle |-> puzzle]
    ELSE IF isdigit(row_str[y + 1])
    THEN StoreRow(x, y + 1, row_str,
                  WriteCell(puzzle, x, y, row_str[y + 1] - Zero))
    ELSE [ok |-> FALSE, puzzle |-> puzzle]

\* The outer loop `for x`, from row x on, and the end-of-file test after it.
RECURSIVE LoadRows(_, _, _, _, _)
LoadRows(x, data, in, row_str, puzzle) ==
    IF x = BoardSize
    THEN [ok |-> in.eof, puzzle |-> puzzle]
    ELSE LET g == getline(data, in, row_str)
         IN  IF BoardSize # Len(g.row_str)
             THEN [ok |-> FALSE, puzzle |-> puzzle]
             ELSE LET r == StoreRow(x, 0, g.row_str, puzzle)
                  IN  IF r.ok
                      THEN LoadRows(x + 1, data, g.in, g.row_str, r.puzzle)
                      ELSE r

\* loadPuzzle(filename, puzzle), file being what the name designates.
loadPuzzle(file, puzzle) ==
    IF ~file.exists
    THEN [ok |-> FALSE, puzzle |-> puzzle]
    ELSE LoadRows(0, file.data, OpenStream, <<>>, puzzle)

----------------------------------------------------------------------------
(* Command line entry point *)

\* The exit status a return value of main becomes (its low eight bits).
ExitStatus(code) == code % 256

Exit(code) ==
    /\ pc' = "exited"
    /\ status' = ExitStatus(code)

Space == 32
Plus == 43
Dash == 45
Bar == 124

\* `std::cout << (int)v`: the decimal digits of v.
RECURSIVE Decimal(_)
Decimal(v) ==
    IF v < 10
    THEN <<Zero + v>>
    ELSE Decimal(v \div 10) \o <<Zero + (v % 10)>>

Dashes(n) == [k \in 1 .. n |-> Dash]

\* "------+-------+------\n", written before rows 3 and 6.
RowSeparator ==
    Dashes(6) \o <<Plus>> \o Dashes(7) \o <<Plus>> \o Dashes(6) \o <<Newline>>

\* Row i from column j on: "| " before columns 3 and 6, each value followed
\* by a space, std::endl after the last.
RECURSIVE PrintCells(_, _, _)
PrintCells(b, i, j) ==
    IF j = BoardSize
    THEN <<Newline>>
    ELSE (IF j % SectionSize = 0 /\ j # 0 THEN <<Bar, Space>> ELSE <<>>)
         \o Decimal(b[i][j]) \o <<Space>>
         \o PrintCells(b, i, j + 1)

\* The characters printBoard(board) writes, from row i on.
RECURSIVE PrintRows(_, _)
PrintRows(b, i) ==
    IF i = BoardSize
    THEN <<>>
    ELSE (IF i % SectionSize = 0 /\ i # 0 THEN RowSeparator ELSE <<>>)
         \o PrintCells(b, i, 0)
         \o PrintRows(b, i + 1)

printBoard(b) == PrintRows(b, 0)

\* Variant: both load failures return -2.
MainStartSameCode ==
    /\ pc = "start"
    /\ IF argc > 2
       THEN Exit(-1) /\ UNCHANGED <<board, load>>
       ELSE LET r == loadPuzzle(fs, board)
            IN  /\ board' = r.puzzle
                /\ load' = IF r.ok THEN "ok" ELSE "failed"
                /\ IF r.ok
                   THEN pc' = "loaded" /\ UNCHANGED status
                   ELSE Exit(-2)
    /\ UNCHANGED <<stack, ret, retEntry, entry0, calls, prev, writes, nested,
                   argc, fs, out, ev>>

\* Lines 240-254: the argument count, then the load of the puzzle.
MainStart ==
    /\ pc = "start"
    /\ IF argc > 2
       THEN Exit(-1) /\ UNCHANGED <<board, load>>
       ELSE LET r == loadPuzzle(fs, board)
            IN  /\ board' = r.puzzle
                /\ load' = IF r.ok THEN "ok" ELSE "failed"
                /\ IF r.ok
                   THEN pc' = "loaded" /\ UNCHANGED status
                   ELSE IF argc = 2 THEN Exit(-2) ELSE Exit(-3)
    /\ UNCHANGED <<stack, ret, retEntry, entry0, calls, prev, writes, nested,
                   argc, fs, out, ev>>

\* Lines 256-261: print the unsolved board and call solveBoard(puzzle).
MainSolve ==
    /\ pc = "loaded"
    /\ out' = Append(out, [heading |-> "Unsolved Puzzle",
                            text |-> printBoard(board)])
    /\ BeginSolve
    /\ pc' = "solving"
    /\ UNCHANGED <<argc, fs, status, load, ev>>

\* Variant: main returns -4 when solveBoard returned false.
MainFinishChecked ==
    /\ pc = "solving"
    /\ Done
    /\ out' = Append(out, [heading |-> "Solved Puzzle",
                            text |-> printBoard(board)])
    /\ IF ret = "true" THEN Exit(0) ELSE Exit(-4)
    /\ UNCHANGED <<solverVars, argc, fs, load, ev>>

\* Lines 262-269: solveBoard has returned; its value is dropped, the board
\* is printed and main returns 0.
MainFinish ==
    /\ pc = "solving"
    /\ Done
    /\ out' = Append(out, [heading |-> "Solved Puzzle",
                            text |-> printBoard(board)])
    /\ Exit(0)
    /\ UNCHANGED <<solverVars, argc, fs, load, ev>>

----------------------------------------------------------------------------
(* Files given to main *)

MaxArgc == 3
MaxLines == 10
MaxFileEmpty == 1

\* The text of row x of b: nine digits.
RowText(b, x) == [j \in 1 .. BoardSize |-> Zero + b[x][j - 1]]

\* A line that breaks the format in one way.
BadKinds == {"short", "long", "letter", "empty"}

BadLine(line, kind) ==
    CASE kind = "short" -> SubSeq(line, 1, Len(line) - 1)
      [] kind = "long" -> Append(line, Zero + 1)
      [] kind = "letter" -> [line EXCEPT ![5] = Letter]
      [] OTHER -> <<>>

\* Lines i..n joined, each followed by a newline except the last, which is
\* followed by one when nl holds.
RECURSIVE JoinLines(_, _, _)
JoinLines(lines, i, nl) ==
    IF i > Len(lines)
    THEN <<>>
    ELSE lines[i]
         \o (IF i < Len(lines) \/ nl THEN <<Newline>> ELSE <<>>)
         \o JoinLines(lines, i + 1, nl)

\* n lines taken from the rows of b (cyclically), line `bad` (if in 1..n)
\* replaced by a bad line.
TextLines(b, n, bad, kind) ==
    [i \in 1 .. n |->
        IF i = bad
        THEN BadLine(RowText(b, (i - 1) % BoardSize), kind)
        ELSE RowText(b, (i - 1) % BoardSize)]

FileOf(lines, nl) == [exists |-> TRUE, data |-> JoinLines(lines, 1, nl)]

\* Boards written to puzzle files.
FileBoards == {b \in Boards : Cardinality(EmptyCells(b)) <= MaxFileEmpty}

PuzzleFiles ==
    {FileOf(TextLines(b, BoardSize, 0, "empty"), nl) :
        b \in FileBoards, nl \in BOOLEAN}

OtherFiles ==
    {FileOf(TextLines(SolvedGrid, n, bad, kind), nl) :
        n \in 0 .. MaxLines, bad \in 0 .. MaxLines, kind \in BadKinds,
        nl \in BOOLEAN}

Files == {NoFile} \cup PuzzleFiles \cup OtherFiles

\* `uint8_t puzzle[9][9];` is not initialized: any bytes may be there.
IndeterminateBoards == {[x \in Idx |-> [y \in Idx |-> v]] : v \in Indeterminate}

InitMain ==
    /\ board \in IndeterminateBoards
    /\ stack = <<>>
    /\ ret = "none"
    /\ retEntry = board
    /\ entry0 = board
    /\ calls = 0
    /\ prev = "none"
    /\ writes = 0
    /\ nested = 0
    /\ pc = "start"
    /\ argc \in 0 .. MaxArgc
    /\ fs \in Files
    /\ status = 0
    /\ load = "notcalled"
    /\ out = <<>>
    /\ ev = NoEval

NextMain == MainStart \/ MainSolve \/ Solve \/ MainFinish

SpecMain == InitMain /\ [][NextMain]_vars

\* The lines of a text: the pieces between newlines; a final newline ends the
\* last line and starts no further one.
RECURSIVE LinesOf(_, _)
LinesOf(data, pos) ==
    IF pos > Len(data)
    THEN <<>>
    ELSE LET n == LineLength(data, pos)
         IN  <<SubSeq(data, pos, pos + n - 1)>> \o LinesOf(data, pos + n + 1)

\* Exactly nine lines of exactly nine digits, the end of the input coming
\* directly after the ninth line.
NineByNine(file) ==
    /\ file.exists
    /\ Len(LinesOf(file.data, 1)) = 9
    /\ \A i \in 1 .. 9 :
          /\ Len(LinesOf(file.data, 1)[i]) = 9
          /\ \A j \in 1 .. 9 : LinesOf(file.data, 1)[i][j] \in 48 .. 57
    /\ file.data[Len(file.data)] # 10

\* C7: loadPuzzle reports success only for a source of exactly nine lines of
\* exactly nine digits that ends directly after the ninth line; a source with
\* a line of another length, a non-digit, or fewer or more than nine lines
\* (also when it ends without a trailing newline) is rejected.
C7_LoaderRejectsMalformed ==
    (load = "ok") => NineByNine(fs)

\* C8: main exits with a non-zero status, distinct for (a) more than one
\* argument, (b) a load failure with an explicit filename, (c) a load failure
\* with the default filename, and in these cases solveBoard is never called.
C8_DistinctFailureStatus ==
    (pc = "exited" /\ (argc > 2 \/ load = "failed")) =>
        /\ status # 0
        /\ (status = ExitStatus(-1)) <=> (argc > 2)
        /\ (status = ExitStatus(-2)) <=> (argc = 2 /\ load = "failed")
        /\ (status = ExitStatus(-3)) <=> (argc < 2 /\ load = "failed")
        /\ Cardinality({ExitStatus(-1), ExitStatus(-2), ExitStatus(-3)}) = 3
        /\ calls = 0
        /\ stack = <<>>
        /\ out = <<>>

\* main has exited after the load from the default filename failed on a file
\* that exists.
C8_Witness ==
    /\ pc = "exited"
    /\ argc < 2
    /\ load = "failed"
    /\ fs.exists
    /\ status = 253

----------------------------------------------------------------------------
(* Further properties of the selector *)

NumCandidates(b, c) == Cardinality(Candidates(b, c[1], c[2]))

\* C11: when the board has an empty cell and every empty cell has a
\* candidate, the selector returns false with the empty cell of fewest
\* candidates, the first in row-major order among those of that count (so
\* the first single-candidate cell when there is one), and with that cell's
\* complete ascending candidate list, never the initial queue 0..9.
C11_FewestFirstInScanOrder ==
    (/\ ev.op = "getBestBoardSpace"
     /\ EmptyCells(ev.before) # {}
     /\ ~HasDeadCell(ev.before)) =>
        LET c == <<ev.best_move.x, ev.best_move.y>>
            pv == ev.best_move.possible_values
        IN  /\ ~ev.ret
            /\ c \in EmptyCells(ev.before)
            /\ \A d \in EmptyCells(ev.before) :
                  /\ NumCandidates(ev.before, c) <= NumCandidates(ev.before, d)
                  /\ (NumCandidates(ev.before, d) = NumCandidates(ev.before, c))
                         => ~Before(d, c)
            /\ \A i \in 1 .. (Len(pv) - 1) : pv[i] < pv[i + 1]
            /\ Range(pv) = Candidates(ev.before, c[1], c[2])
            /\ pv # [i \in 1 .. 10 |-> i - 1]

\* The selected cell has several candidates, an earlier empty cell has more
\* and a later empty cell has as many.
C11_Witness ==
    /\ ev.op = "getBestBoardSpace"
    /\ ~HasDeadCell(ev.before)
    /\ ~ev.ret
    /\ Len(ev.best_move.possible_values) >= 2
    /\ LET c == <<ev.best_move.x, ev.best_move.y>>
       IN  /\ \E d \in EmptyCells(ev.before) :
                 Before(d, c) /\ NumCandidates(ev.before, d) > NumCandidates(ev.before, c)
           /\ \E d \in EmptyCells(ev.before) :
                 Before(c, d) /\ NumCandidates(ev.before, d) = NumCandidates(ev.before, c)

----------------------------------------------------------------------------
(* Further properties of solveBoard *)

\* C12: every write to the board is made by the innermost invocation, in its
\* loop, to the one space it selected at entry, which was empty then; a
\* non-zero value written is the next element of the candidate list computed
\* at entry and is greater than the value it replaces, which is the previous
\* element; an invocation leaves the recursive call for its loop only when
\* that call has returned false.
C12_WritesFollowCandidateList ==
    [][/\ (board' # board) =>
            /\ stack # <<>>
            /\ Top.pc = "loop"
            /\ LET f == Top
                   x == f.move.x
                   y == f.move.y
               IN  /\ f.entry[x][y] = 0
                   /\ \A c \in Cells :
                         (c # <<x, y>>) => board'[c[1]][c[2]] = board[c[1]][c[2]]
                   /\ (board'[x][y] # 0) =>
                         /\ Tried(f) < Len(f.cands)
                         /\ board'[x][y] = f.cands[Tried(f) + 1]
                         /\ board'[x][y] > board[x][y]
                         /\ board[x][y] =
                              (IF Tried(f) = 0 THEN 0 ELSE f.cands[Tried(f)])
       /\ \A i \in 1 .. Len(stack) :
            (/\ i <= Len(stack')
             /\ stack[i].pc = "call"
             /\ stack'[i].pc = "loop") =>
                (i = Len(stack) /\ ret = "false")
      ]_vars

\* An invocation is about to make its second or a later move: the recursive
\* call for the previous one has returned false and left that move in place.
C12_Witness ==
    /\ stack # <<>>
    /\ Top.pc = "loop"
    /\ Tried(Top) >= 1
    /\ Top.move.possible_values # <<>>
    /\ board[Top.move.x][Top.move.y] = Top.cands[Tried(Top)]
    /\ ret = "none"


\* C13: once a recursive call has returned true, each enclosing invocation
\* returns true in its next step, without a write and without a further
\* move, so the board at the top-level return is the board on which the
\* innermost call found no empty space.
C13_SuccessPropagates ==
    [][(ret = "true" /\ stack # <<>>) =>
            /\ board' = board
            /\ ret' = "true"
            /\ stack' = SubSeq(stack, 1, Len(stack) - 1)
            /\ writes' = writes
            /\ nested' = nested
      ]_vars

\* A recursive call has returned true to an invocation that still has
\* untried moves in its queue.
C13_Witness ==
    /\ ret = "true"
    /\ stack # <<>>
    /\ Top.pc = "call"
    /\ Top.move.possible_values # <<>>
    /\ EmptyCells(board) = {}


\* solveBoard runs once called: the program does not stop inside it.  This is
\* WF_vars(Solve), with ENABLED <<Solve>>_vars written out as stack # <<>>
\* (an active invocation can always take its next step).
SpecFair == Spec /\ ([]<>(stack = <<>>) \/ []<><<Solve>>_vars)

NumEmpty(b) == Cardinality(EmptyCells(b))

\* C14: every top-level call returns; at every point the number of nested
\* calls beneath it is at most the number of cells empty at its entry (at
\* most 81), each nested call being entered with exactly one empty cell less
\* than its caller had at entry.
C14_TerminatesWithinDepth ==
    /\ [](/\ Len(stack) - 1 <= NumEmpty(entry0)
          /\ NumEmpty(entry0) <= 81
          /\ (stack # <<>>) => stack[1].entry = entry0
          /\ \A i \in 2 .. Len(stack) :
                NumEmpty(stack[i].entry) = NumEmpty(stack[i - 1].entry) - 1)
    /\ ((stack # <<>>) ~> Done)

\* The recursion is more than sixty calls deep, below a top-level call on a
\* board with 72 empty cells.
C14_Witness ==
    /\ Len(stack) - 1 > 60
    /\ NumEmpty(entry0) = 72
    /\ NumEmpty(Top.entry) = NumEmpty(entry0) - (Len(stack) - 1)


\* C15: during a top-level call and at its return, true or false, every cell
\* that was filled at its entry holds its entry value; on success the board
\* is a completion of the entry board.
C15_GivensUntouched ==
    /\ \A c \in Cells :
          (entry0[c[1]][c[2]] # 0) => board[c[1]][c[2]] = entry0[c[1]][c[2]]
    /\ (Done /\ ret = "true") => (Extends(board, entry0) /\ EmptyCells(board) = {})

\* In the middle of a search that has already cleared a space, some cells
\* are filled beyond the givens and the givens are in place.
C15_Witness ==
    /\ stack # <<>>
    /\ writes > nested
    /\ NumEmpty(entry0) < 81
    /\ NumEmpty(board) < NumEmpty(entry0)
    /\ Extends(board, entry0)


----------------------------------------------------------------------------
(* Further properties of main *)

\* The digits of a printed text, in order.
DigitsOf(text) == SelectSeq(text, LAMBDA ch : ch \in 48 .. 57)

\* The printed text shows the 81 values of b, row by row.
Shows(text, b) ==
    /\ Len(DigitsOf(text)) = 81
    /\ \A c \in Cells : DigitsOf(text)[9 * c[1] + c[2] + 1] - 48 = b[c[1]][c[2]]

\* C16: when the puzzle loads, main calls solveBoard once, drops its value,
\* prints the board under the solved heading and exits with status 0
\* whatever the value was; after false, the board printed as solved is the
\* input board.
C16_FailureNotReported ==
    (load = "ok") =>
        /\ calls <= 1
        /\ (pc = "exited") =>
              /\ status = 0
              /\ calls = 1
              /\ Done
              /\ Len(out) = 2
              /\ out[1].heading = "Unsolved Puzzle"
              /\ Shows(out[1].text, entry0)
              /\ out[2].heading = "Solved Puzzle"
              /\ Shows(out[2].text, board)
              /\ (ret = "false") =>
                    (Shows(out[2].text, entry0) /\ out[2].text = out[1].text)

\* main has exited with status 0 after solveBoard returned false on a board
\* with an empty cell.
C16_Witness ==
    /\ pc = "exited"
    /\ load = "ok"
    /\ ret = "false"
    /\ status = 0
    /\ NumEmpty(board) > 0
    /\ Len(out) = 2

====
